---- MODULE Spec2Model ----
(***************************************************************************)
(* The execution helper of the Starknet OS runner                          *)
(* (src/src/execution/helper.rs): a cursor over the execution trace of a   *)
(* batch of transactions, driven by the hint callbacks of the Cairo VM.    *)
(***************************************************************************)
EXTENDS Integers, Sequences, FiniteSets, TLC

\* ------------------------------------------------------------------------
\* Bounds of the model
\* ------------------------------------------------------------------------
\* longest batch handed to ExecutionHelperManager::new
MaxTxs == 2
\* most CallInfo nodes in the call trees of one batch
MaxCalls == 3
\* most inner calls of one CallInfo
MaxInner == 2
\* deepest call tree (a root alone has depth 1)
MaxDepth == 3
\* width in bytes of a StarkFelt in the model (32 in starknet_api)
FeltBytes == 2

\* ------------------------------------------------------------------------
\* Option<T>: None is the empty sequence, Some(x) the one-element sequence
\* ------------------------------------------------------------------------
None == <<>>
Some(x) == <<x>>
is_none(o) == Len(o) = 0
is_some(o) == Len(o) = 1
unwrap(o) == o[1]

\* ------------------------------------------------------------------------
\* Field elements
\* ------------------------------------------------------------------------
\* The modulus of Felt252 in the model, placed in FeltBytes = 2 bytes the way
\* the real one, 2^251 + 17 * 2^192 + 1, is placed in 32.
FeltModulus == 37121

\* StarkFelt is stored as its big-endian byte array; this builds one from a
\* number (StarkFelt::from), most significant byte first.
RECURSIVE to_bytes_be(_, _)
to_bytes_be(n, width) ==
    IF width = 0 THEN <<>>
    ELSE Append(to_bytes_be(n \div 256, width - 1), n % 256)

StarkFeltFrom(n) == to_bytes_be(n, FeltBytes)

\* Felt252::from_bytes_be_slice: the big-endian integer of the bytes, reduced
\* modulo the field prime.
RECURSIVE from_bytes_be_acc(_, _)
from_bytes_be_acc(bytes, acc) ==
    IF bytes = <<>> THEN acc
    ELSE from_bytes_be_acc(Tail(bytes), (acc * 256 + Head(bytes)) % FeltModulus)

\* a plausible slip: the bytes read least significant first
RECURSIVE from_bytes_le_acc(_)
from_bytes_le_acc(bytes) ==
    IF bytes = <<>> THEN 0
    ELSE (Head(bytes) + 256 * from_bytes_le_acc(Tail(bytes))) % FeltModulus

from_bytes_be_slice_LittleEndian(bytes) == from_bytes_le_acc(bytes)

from_bytes_be_slice(bytes) == from_bytes_be_acc(bytes, 0)

\* ------------------------------------------------------------------------
\* Inputs: call trees, transactions, batches
\* ------------------------------------------------------------------------
\* What one CallInfo node carries besides its inner calls.
PlainCall ==
    [entry_point_type |-> "External", caller_address |-> StarkFeltFrom(7),
     failed |-> FALSE, retdata |-> <<>>, gas_consumed |-> 0,
     storage_read_values |-> <<>>]
DeployCall ==
    [entry_point_type |-> "Constructor", caller_address |-> StarkFeltFrom(273),
     failed |-> FALSE, retdata |-> <<1>>, gas_consumed |-> 5,
     storage_read_values |-> <<StarkFeltFrom(42)>>]
L1Call ==
    [entry_point_type |-> "L1Handler", caller_address |-> StarkFeltFrom(273),
     failed |-> TRUE, retdata |-> <<2, 3>>, gas_consumed |-> 3,
     storage_read_values |-> <<StarkFeltFrom(42), StarkFeltFrom(300)>>]
FailedDeployCall ==
    [entry_point_type |-> "Constructor", caller_address |-> StarkFeltFrom(7),
     failed |-> TRUE, retdata |-> <<>>, gas_consumed |-> 9,
     storage_read_values |-> <<>>]

Profiles == {PlainCall, DeployCall, L1Call, FailedDeployCall}

\* The profiles the nodes of the validate, the execute and the fee transfer
\* trace are drawn from: one kind of call per trace, which fills or leaves
\* empty each per-call sequence; or every mix of calls in the execute trace.
TraceProfiles == <<{PlainCall}, {DeployCall}, {L1Call}>>
MixedProfiles == <<{}, Profiles, {}>>

\* A CallInfo.  calldata carries the node's position in the batch (transaction,
\* sub-trace, child indexes), so no two nodes of a batch are equal.
CallInfo(p, path, inner) ==
    [call |-> [entry_point_type |-> p.entry_point_type,
               caller_address |-> p.caller_address,
               calldata |-> path],
     execution |-> [failed |-> p.failed, retdata |-> p.retdata,
                    gas_consumed |-> p.gas_consumed],
     storage_read_values |-> p.storage_read_values,
     inner_calls |-> inner]

RECURSIVE TreeSize(_)
RECURSIVE ForestSize(_)
TreeSize(t) == 1 + ForestSize(t.inner_calls)
ForestSize(f) == IF f = <<>> THEN 0 ELSE TreeSize(Head(f)) + ForestSize(Tail(f))

\* Trees(n, d, path, P): the call trees rooted at position path with at most
\* n nodes and depth at most d, their nodes drawn from P.
\* Forests(n, d, k, path, i, P): the lists of at most k such trees, the first
\* at child index i, with at most n nodes in all.
RECURSIVE Trees(_, _, _, _)
RECURSIVE Forests(_, _, _, _, _, _)
Trees(n, d, path, P) ==
    IF n = 0 \/ d = 0 THEN {}
    ELSE UNION { { CallInfo(p, path, inner) : p \in P } :
                 inner \in Forests(n - 1, d - 1, MaxInner, path, 1, P) }
Forests(n, d, k, path, i, P) ==
    {<<>>} \cup
    ( IF k = 0 THEN {}
      ELSE UNION { { <<t>> \o rest :
                       rest \in Forests(n - TreeSize(t), d, k - 1, path, i + 1, P) } :
                   t \in Trees(n, d, Append(path, i), P) } )

\* A TransactionExecutionInfo: three optional call trees.
TxSize(tx) ==
    ForestSize(tx.validate_call_info) + ForestSize(tx.execute_call_info)
        + ForestSize(tx.fee_transfer_call_info)

OptTrees(n, path, P) == {None} \cup { Some(t) : t \in Trees(n, MaxDepth, path, P) }

\* the k-th transaction of a batch, of at most n calls, its traces over PS
TxInfos(n, k, PS) ==
    UNION { UNION { { [validate_call_info |-> v, execute_call_info |-> e,
                       fee_transfer_call_info |-> f] :
                       f \in OptTrees(n - ForestSize(v) - ForestSize(e), <<k, 3>>, PS[3]) } :
                    e \in OptTrees(n - ForestSize(v), <<k, 2>>, PS[2]) } :
            v \in OptTrees(n, <<k, 1>>, PS[1]) }

RECURSIVE BatchSize(_)
BatchSize(b) == IF b = <<>> THEN 0 ELSE TxSize(Head(b)) + BatchSize(Tail(b))

\* Batches(n, k, last, PS): the batches whose transactions are the k-th to at
\* most the last of the run, with at most n calls in all.
RECURSIVE Batches(_, _, _, _)
Batches(n, k, last, PS) ==
    {<<>>} \cup
    ( IF k > last THEN {}
      ELSE UNION { { <<tx>> \o rest : rest \in Batches(n - TxSize(tx), k + 1, last, PS) } :
                   tx \in TxInfos(n, k, PS) } )

\* Batches of several transactions with one kind of call per trace, and
\* batches of one transaction with every mix of calls in its execute trace.
AllBatches ==
    Batches(MaxCalls, 1, MaxTxs, TraceProfiles) \cup Batches(MaxCalls, 1, 1, MixedProfiles)

\* ------------------------------------------------------------------------
\* Call-tree flattening
\* ------------------------------------------------------------------------
\* TransactionExecutionInfo::non_optional_call_infos (blockifier): the present
\* sub-traces in the order validate, execute, fee transfer.
non_optional_call_infos(tx) ==
    tx.validate_call_info \o tx.execute_call_info \o tx.fee_transfer_call_info

\* a plausible slip: the node pushed after its inner calls (post-order)
RECURSIVE gen_call_topology_PostOrder(_)
RECURSIVE extend_topologies_PostOrder(_, _)
gen_call_topology_PostOrder(self) ==
    Append(extend_topologies_PostOrder(<<>>, self.inner_calls), self)
extend_topologies_PostOrder(results, calls) ==
    IF calls = <<>> THEN results
    ELSE extend_topologies_PostOrder(
             results \o gen_call_topology_PostOrder(Head(calls)), Tail(calls))

\* CallInfo::gen_call_topology: results starts as [self]; every inner call,
\* in order, extends it with its own topology.
RECURSIVE gen_call_topology(_)
RECURSIVE extend_topologies(_, _)
gen_call_topology(self) == extend_topologies(<<self>>, self.inner_calls)
extend_topologies(results, calls) ==
    IF calls = <<>> THEN results
    ELSE extend_topologies(results \o gen_call_topology(Head(calls)), Tail(calls))

\* TransactionExecutionInfo::gen_call_iterator
RECURSIVE extend_call_infos(_, _)
extend_call_infos(call_infos, roots) ==
    IF roots = <<>> THEN call_infos
    ELSE extend_call_infos(call_infos \o gen_call_topology(Head(roots)), Tail(roots))

gen_call_iterator(self) == extend_call_infos(<<>>, non_optional_call_infos(self))

\* ------------------------------------------------------------------------
\* The execution helper
\* ------------------------------------------------------------------------
STORED_BLOCK_HASH_BUFFER == 10

\* a plausible slip: the subtraction wraps around instead of failing
checked_sub_Wrapping(a, b) == Some(IF a >= b THEN a - b ELSE a - b + 65536)

\* u64::checked_sub
checked_sub(a, b) == IF a >= b THEN Some(a - b) ELSE None

\* Option::map(|_| v)
map_const(o, v) == IF is_some(o) THEN Some(v) ELSE None

\* ExecutionHelperManager::new: the helper behind its RefCell (borrow = 0:
\* not borrowed)
new(infos, ctx) ==
    [borrow |-> 0,
     value |->
       [prev_block_context |->
            map_const(checked_sub(ctx.block_number, STORED_BLOCK_HASH_BUFFER), ctx),
        tx_execution_info_iter |-> infos,
        tx_execution_info |-> None,
        tx_info_ptr |-> None,
        call_iter |-> <<>>,
        call_execution_info_ptr |-> None,
        call_info |-> None,
        result_iter |-> <<>>,
        deployed_contracts_iter |-> <<>>,
        execute_code_read_iter |-> <<>>]]

\* The outcome of running code on the helper: the helper as the code left
\* it, and the panic that ended it ("" when it returned).
NoPanic == ""
Ok(eh) == [eh |-> eh, panic |-> NoPanic]
Panicked(eh, msg) == [eh |-> eh, panic |-> msg]

\* a plausible slip: the element is read but the iterator not advanced (peek)
iter_next_Peek(it) ==
    IF it = <<>> THEN [item |-> None, rest |-> <<>>]
    ELSE [item |-> Some(Head(it)), rest |-> it]

\* IntoIter::next
iter_next(it) ==
    IF it = <<>> THEN [item |-> None, rest |-> <<>>]
    ELSE [item |-> Some(Head(it)), rest |-> Tail(it)]

\* a plausible slip: the RefMut outlives the function (kept, or forgotten),
\* so the borrow is not given back
RefMut_drop_Leaked(borrow) == borrow

\* The drop of the RefMut when the function returns or unwinds.
RefMut_drop(borrow) == borrow + 1

\* A function that takes RefCell::borrow_mut for its whole body: it panics
\* if the helper is borrowed already; else the flag goes to -1 (borrowed
\* mutably), the body leaves the outcome r on the borrowed value, and
\* eh_ref is dropped.
with_borrow_mut(self, r) ==
    IF self.borrow # 0
    THEN [cell |-> self, panic |-> "already borrowed: BorrowMutError"]
    ELSE [cell |-> [borrow |-> RefMut_drop(self.borrow - 1), value |-> r.eh],
          panic |-> r.panic]

\* a plausible slip: the storage reads left out of the exhaustion check
assert_iterators_exhausted_NoStorageCheck(eh) ==
    IF eh.deployed_contracts_iter # <<>>
    THEN "assert deployed_contracts_iter exhausted"
    ELSE IF eh.result_iter # <<>>
    THEN "assert result_iter exhausted"
    ELSE NoPanic

\* assert_iterators_exhausted: "" or the assertion that failed
assert_iterators_exhausted(eh) ==
    IF eh.deployed_contracts_iter # <<>>
    THEN "assert deployed_contracts_iter exhausted"
    ELSE IF eh.result_iter # <<>>
    THEN "assert result_iter exhausted"
    ELSE IF eh.execute_code_read_iter # <<>>
    THEN "assert execute_code_read_iter exhausted"
    ELSE NoPanic

\* a plausible slip: an exhausted batch taken as a transaction without calls
start_tx_body_EmptyOnUnderflow(eh, tx_info_ptr) ==
    IF ~is_none(eh.tx_info_ptr)
    THEN Panicked(eh, "start_tx: assert tx_info_ptr.is_none()")
    ELSE
    LET e1 == [eh EXCEPT !.tx_info_ptr = tx_info_ptr] IN
    IF ~is_none(e1.tx_execution_info)
    THEN Panicked(e1, "start_tx: assert tx_execution_info.is_none()")
    ELSE
    LET nxt == iter_next(e1.tx_execution_info_iter)
        e2 == [e1 EXCEPT !.tx_execution_info = nxt.item,
                         !.tx_execution_info_iter = nxt.rest]
    IN
    IF is_none(e2.tx_execution_info)
    THEN Ok([e2 EXCEPT !.call_iter = <<>>])
    ELSE Ok([e2 EXCEPT !.call_iter = gen_call_iterator(unwrap(e2.tx_execution_info))])

\* a plausible slip: start_tx guarded by its pointer alone
start_tx_body_NoOpenCheck(eh, tx_info_ptr) ==
    IF ~is_none(eh.tx_info_ptr)
    THEN Panicked(eh, "start_tx: assert tx_info_ptr.is_none()")
    ELSE
    LET e1 == [eh EXCEPT !.tx_info_ptr = tx_info_ptr]
        nxt == iter_next(e1.tx_execution_info_iter)
        e2 == [e1 EXCEPT !.tx_execution_info = nxt.item,
                         !.tx_execution_info_iter = nxt.rest]
    IN
    IF is_none(e2.tx_execution_info)
    THEN Panicked(e2, "start_tx: unwrap on None")
    ELSE Ok([e2 EXCEPT !.call_iter = gen_call_iterator(unwrap(e2.tx_execution_info))])

\* start_tx, on the borrowed helper
start_tx_body(eh, tx_info_ptr) ==
    IF ~is_none(eh.tx_info_ptr)
    THEN Panicked(eh, "start_tx: assert tx_info_ptr.is_none()")
    ELSE
    LET e1 == [eh EXCEPT !.tx_info_ptr = tx_info_ptr] IN
    IF ~is_none(e1.tx_execution_info)
    THEN Panicked(e1, "start_tx: assert tx_execution_info.is_none()")
    ELSE
    LET nxt == iter_next(e1.tx_execution_info_iter)
        e2 == [e1 EXCEPT !.tx_execution_info = nxt.item,
                         !.tx_execution_info_iter = nxt.rest]
    IN
    IF is_none(e2.tx_execution_info)
    THEN Panicked(e2, "start_tx: unwrap on None")
    ELSE Ok([e2 EXCEPT !.call_iter = gen_call_iterator(unwrap(e2.tx_execution_info))])

start_tx(self, tx_info_ptr) ==
    with_borrow_mut(self, start_tx_body(self.value, tx_info_ptr))

\* a plausible slip: end_tx without the check that the call queue is drained
end_tx_body_NoDrainCheck(eh) ==
    LET e1 == [eh EXCEPT !.tx_info_ptr = None] IN
    IF ~is_some(e1.tx_execution_info)
    THEN Panicked(e1, "end_tx: assert tx_execution_info.is_some()")
    ELSE Ok([e1 EXCEPT !.tx_execution_info = None])

\* a plausible slip: end_tx leaves tx_info_ptr as it is
end_tx_body_KeepsPtr(eh) ==
    IF eh.call_iter # <<>>
    THEN Panicked(eh, "end_tx: assert call_iter exhausted")
    ELSE IF ~is_some(eh.tx_execution_info)
    THEN Panicked(eh, "end_tx: assert tx_execution_info.is_some()")
    ELSE Ok([eh EXCEPT !.tx_execution_info = None])

\* end_tx, on the borrowed helper
end_tx_body(eh) ==
    IF eh.call_iter # <<>>
    THEN Panicked(eh, "end_tx: assert call_iter exhausted")
    ELSE
    LET e1 == [eh EXCEPT !.tx_info_ptr = None] IN
    IF ~is_some(e1.tx_execution_info)
    THEN Panicked(e1, "end_tx: assert tx_execution_info.is_some()")
    ELSE Ok([e1 EXCEPT !.tx_execution_info = None])

end_tx(self) == with_borrow_mut(self, end_tx_body(self.value))

\* a plausible slip: skip_tx opens the transaction and leaves it open
skip_tx_StartOnly(self) == start_tx(self, None)

\* skip_tx: start_tx(None) and, when that returned, end_tx()
skip_tx(self) ==
    LET r == start_tx(self, None) IN
    IF r.panic # NoPanic THEN r ELSE end_tx(r.cell)

\* a plausible slip: every inner call taken as a deployment
deployed_calls_NoFilter(call_info) ==
    [i \in 1..Len(call_info.inner_calls) |->
        from_bytes_be_slice(call_info.inner_calls[i].call.caller_address)]

\* a plausible slip: the results of the entered call's whole subtree
call_results_Subtree(call_info) ==
    LET below == Tail(gen_call_topology(call_info)) IN
    [i \in 1..Len(below) |->
        [failed |-> below[i].execution.failed,
         retdata |-> below[i].execution.retdata,
         gas_consumed |-> below[i].execution.gas_consumed]]

\* the three per-call sequences enter_call unpacks from the entered call
deployed_calls(call_info) ==
    LET kept == SelectSeq(call_info.inner_calls,
                          LAMBDA c : c.call.entry_point_type = "Constructor")
    IN [i \in 1..Len(kept) |-> from_bytes_be_slice(kept[i].call.caller_address)]

call_results(call_info) ==
    [i \in 1..Len(call_info.inner_calls) |->
        [failed |-> call_info.inner_calls[i].execution.failed,
         retdata |-> call_info.inner_calls[i].execution.retdata,
         gas_consumed |-> call_info.inner_calls[i].execution.gas_consumed]]

storage_reads(call_info) ==
    [i \in 1..Len(call_info.storage_read_values) |->
        from_bytes_be_slice(call_info.storage_read_values[i])]

\* enter_call, on the borrowed helper
enter_call_body(eh, execution_info_ptr) ==
    IF ~is_none(eh.call_execution_info_ptr)
    THEN Panicked(eh, "enter_call: assert call_execution_info_ptr.is_none()")
    ELSE
    LET e1 == [eh EXCEPT !.call_execution_info_ptr = execution_info_ptr] IN
    IF assert_iterators_exhausted(e1) # NoPanic
    THEN Panicked(e1, assert_iterators_exhausted(e1))
    ELSE IF ~is_none(e1.call_info)
    THEN Panicked(e1, "enter_call: assert call_info.is_none()")
    ELSE
    LET nxt == iter_next(e1.call_iter)
        e2 == [e1 EXCEPT !.call_iter = nxt.rest]
    IN
    IF is_none(nxt.item)
    THEN Panicked(e2, "enter_call: unwrap on None")
    ELSE
    LET call_info == unwrap(nxt.item) IN
    Ok([e2 EXCEPT !.deployed_contracts_iter = deployed_calls(call_info),
                  !.result_iter = call_results(call_info),
                  !.execute_code_read_iter = storage_reads(call_info),
                  !.call_info = Some(call_info)])

enter_call(self, execution_info_ptr) ==
    with_borrow_mut(self, enter_call_body(self.value, execution_info_ptr))

\* a plausible slip: exit_call without the exhaustion check
exit_call_body_NoExhaustionCheck(eh) ==
    LET e1 == [eh EXCEPT !.call_execution_info_ptr = None] IN
    IF ~is_some(e1.call_info)
    THEN Panicked(e1, "exit_call: assert call_info.is_some()")
    ELSE Ok([e1 EXCEPT !.call_info = None])

\* exit_call, on the borrowed helper
exit_call_body(eh) ==
    LET e1 == [eh EXCEPT !.call_execution_info_ptr = None] IN
    IF assert_iterators_exhausted(e1) # NoPanic
    THEN Panicked(e1, assert_iterators_exhausted(e1))
    ELSE IF ~is_some(e1.call_info)
    THEN Panicked(e1, "exit_call: assert call_info.is_some()")
    ELSE Ok([e1 EXCEPT !.call_info = None])

exit_call(self) == with_borrow_mut(self, exit_call_body(self.value))

\* a plausible slip: skip_call enters the call and leaves it open
skip_call_EnterOnly(self) == enter_call(self, None)

\* skip_call: enter_call(None) and, when that returned, exit_call()
skip_call(self) ==
    LET r == enter_call(self, None) IN
    IF r.panic # NoPanic THEN r ELSE exit_call(r.cell)

\* ------------------------------------------------------------------------
\* The hint handlers (src/src/hints/mod.rs)
\* ------------------------------------------------------------------------
\* most memory segments of the VM
MaxSegments == 6

\* MaybeRelocatable: a field element or an address (segment, offset)
IntValue(n) == <<"Int", n, 0>>
RelocatableValue(segment_index, offset) == <<"RelocatableValue", segment_index, offset>>

\* a map without entries
EmptyMap == [k \in {} |-> 0]

\* The VM before the first hint: the program segment and the execution
\* segment exist, nothing is written.
NewVm == [num_segments |-> 2, memory |-> EmptyMap]

\* VirtualMachine::add_memory_segment: the base of a fresh segment
add_memory_segment(vm) ==
    [vm |-> [vm EXCEPT !.num_segments = @ + 1],
     base |-> <<vm.num_segments, 0>>]

\* VirtualMachine::insert_value: memory is write-once; a cell of a segment
\* that does not exist, or a cell that holds another value, is an error
vm_insert_value(vm, addr, val) ==
    IF addr[1] >= vm.num_segments
    THEN [vm |-> vm, err |-> "Memory(UnallocatedSegment)"]
    ELSE IF addr \in DOMAIN vm.memory /\ vm.memory[addr] # val
    THEN [vm |-> vm, err |-> "Memory(InconsistentMemory)"]
    ELSE [vm |-> [vm EXCEPT !.memory = (addr :> val) @@ @], err |-> ""]

\* get_integer_from_var_name: the field element in the cell an ids name
\* stands for
get_integer(vm, addr) ==
    IF addr \in DOMAIN vm.memory /\ vm.memory[addr][1] = "Int"
    THEN Some(vm.memory[addr][2])
    ELSE None

\* ExecutionScopes::get: the variable of the current (innermost) scope
scopes_get(exec_scopes, name) ==
    LET locals == exec_scopes[Len(exec_scopes)] IN
    IF name \in DOMAIN locals THEN Some(locals[name]) ELSE None

\* ExecutionScopes::insert_value / insert_box: into the current scope
scopes_insert_value(exec_scopes, name, val) ==
    [exec_scopes EXCEPT ![Len(exec_scopes)] = (name :> val) @@ @]

\* ExecutionScopes::enter_scope
enter_scope(exec_scopes, new_scope_locals) == Append(exec_scopes, new_scope_locals)

\* How a handler ends: Ok(()), Err(HintError::variant), or a panic; args are
\* the values the message is formatted with.
HintOk == [kind |-> "Ok", variant |-> "", args |-> <<>>]
HintErr(variant) == [kind |-> "Err", variant |-> variant, args |-> <<>>]
HintPanic(variant, args) == [kind |-> "panic", variant |-> variant, args |-> args]

\* a handler's effect on the VM and the scopes, and how it ended
Done(vm, exec_scopes, outcome) ==
    [vm |-> vm, exec_scopes |-> exec_scopes, outcome |-> outcome]

\* a plausible slip: the name's bytes read least significant first
from_bytes_be_LittleEndian(bytes) == from_bytes_le_acc(bytes)

\* Felt252::from_bytes_be
from_bytes_be(bytes) == from_bytes_be_acc(bytes, 0)

\* The body of the loop of initialize_state_changes over the contracts in
\* the order the map hands them out.
RECURSIVE state_changes_loop(_, _, _, _)
state_changes_loop(vm, contracts, order, state_dict) ==
    IF order = <<>> THEN [vm |-> vm, state_dict |-> state_dict, err |-> ""]
    ELSE
    LET addr == Head(order)
        contract_state == contracts[addr]
        a1 == add_memory_segment(vm)
        change_base == a1.base
        w1 == vm_insert_value(a1.vm, change_base, IntValue(contract_state.contract_hash))
        a2 == add_memory_segment(w1.vm)
        storage_commitment_base == a2.base
        w2 == vm_insert_value(a2.vm, <<change_base[1], change_base[2] + 1>>,
                              RelocatableValue(storage_commitment_base[1],
                                               storage_commitment_base[2]))
        w3 == vm_insert_value(w2.vm, <<change_base[1], change_base[2] + 2>>,
                              IntValue(contract_state.nonce))
    IN
    IF w1.err # "" THEN [vm |-> w1.vm, state_dict |-> state_dict, err |-> w1.err]
    ELSE IF w2.err # "" THEN [vm |-> w2.vm, state_dict |-> state_dict, err |-> w2.err]
    ELSE IF w3.err # "" THEN [vm |-> w3.vm, state_dict |-> state_dict, err |-> w3.err]
    ELSE state_changes_loop(w3.vm, contracts, Tail(order),
                            (addr :> change_base) @@ state_dict)

\* initialize_state_changes, the contracts map iterated in the given order
initialize_state_changes(h, order) ==
    LET os_input_ == scopes_get(h.exec_scopes, "os_input") IN
    IF is_none(os_input_)
    THEN Done(h.vm, h.exec_scopes, HintErr("VariableNotInScopeError"))
    ELSE
    LET r == state_changes_loop(h.vm, unwrap(os_input_).contracts, order, EmptyMap) IN
    IF r.err # "" THEN Done(r.vm, h.exec_scopes, HintErr(r.err))
    ELSE Done(r.vm, scopes_insert_value(h.exec_scopes, "initial_dict", r.state_dict),
              HintOk)

\* enter_syscall_scopes
enter_syscall_scopes(h) ==
    LET os_input_ == scopes_get(h.exec_scopes, "os_input")
        dict_manager == scopes_get(h.exec_scopes, "dict_manager")
        deprecated_class_hashes == scopes_get(h.exec_scopes, "__deprecated_class_hashes")
        execution_helper_ == scopes_get(h.exec_scopes, "execution_helper")
    IN
    IF is_none(os_input_)
    THEN Done(h.vm, h.exec_scopes, HintPanic("unwrap on Err", <<>>))
    ELSE IF is_none(dict_manager) \/ is_none(deprecated_class_hashes)
            \/ is_none(execution_helper_)
    THEN Done(h.vm, h.exec_scopes, HintErr("VariableNotInScopeError"))
    ELSE Done(h.vm,
              enter_scope(h.exec_scopes,
                  ("transactions" :> unwrap(os_input_).transactions)
                  @@ ("execution_helper" :> unwrap(execution_helper_))
                  @@ ("dict_manager" :> unwrap(dict_manager))
                  @@ ("__deprecated_class_hashes" :> unwrap(deprecated_class_hashes))),
              HintOk)

\* a plausible slip: the advanced iterator is not put back into the scope
load_next_tx_NoStoreBack(h, tx_type_addr) ==
    LET transactions_ == scopes_get(h.exec_scopes, "transactions") IN
    IF is_none(transactions_)
    THEN Done(h.vm, h.exec_scopes, HintErr("VariableNotInScopeError"))
    ELSE
    LET nxt == iter_next(unwrap(transactions_)) IN
    IF is_none(nxt.item)
    THEN Done(h.vm, h.exec_scopes, HintPanic("unwrap on None", <<>>))
    ELSE
    LET tx == unwrap(nxt.item)
        s2 == scopes_insert_value(h.exec_scopes, "tx", tx)
        w == vm_insert_value(h.vm, tx_type_addr, IntValue(from_bytes_be(tx.type)))
    IN
    Done(w.vm, s2, IF w.err = "" THEN HintOk ELSE HintErr(w.err))

\* load_next_tx; tx_type_addr is the cell ids.tx_type stands for
load_next_tx(h, tx_type_addr) ==
    LET transactions_ == scopes_get(h.exec_scopes, "transactions") IN
    IF is_none(transactions_)
    THEN Done(h.vm, h.exec_scopes, HintErr("VariableNotInScopeError"))
    ELSE
    LET nxt == iter_next(unwrap(transactions_)) IN
    IF is_none(nxt.item)
    THEN Done(h.vm, h.exec_scopes, HintPanic("unwrap on None", <<>>))
    ELSE
    LET tx == unwrap(nxt.item)
        s1 == scopes_insert_value(h.exec_scopes, "transactions", nxt.rest)
        s2 == scopes_insert_value(s1, "tx", tx)
        w == vm_insert_value(h.vm, tx_type_addr, IntValue(from_bytes_be(tx.type)))
    IN
    Done(w.vm, s2, IF w.err = "" THEN HintOk ELSE HintErr(w.err))

\* assert_transaction_hash; transaction_hash_addr is the cell
\* ids.transaction_hash stands for
assert_transaction_hash(h, transaction_hash_addr) ==
    LET tx_ == scopes_get(h.exec_scopes, "tx") IN
    IF is_none(tx_)
    THEN Done(h.vm, h.exec_scopes, HintErr("VariableNotInScopeError"))
    ELSE
    LET transaction_hash == get_integer(h.vm, transaction_hash_addr) IN
    IF is_none(transaction_hash)
    THEN Done(h.vm, h.exec_scopes, HintErr("IdentifierNotInteger"))
    ELSE IF unwrap(tx_).hash_value # unwrap(transaction_hash)
    THEN Done(h.vm, h.exec_scopes,
              HintPanic("assert_eq",
                        <<unwrap(transaction_hash), unwrap(tx_).hash_value>>))
    ELSE Done(h.vm, h.exec_scopes, HintOk)

\* The ASCII bytes the names of transaction types are written with ("D", "I")
TypeAlphabet == {68, 73}

\* InternalTransaction.type as its bytes (String::as_bytes)
TypeNames == UNION { [1..n -> TypeAlphabet] : n \in 1..FeltBytes }

\* InternalTransaction.hash_value
Hashes == {5, 6}

\* InternalTransaction: both hashes under one type name, and every type name
BaseTxs == { [type |-> <<68>>, hash_value |-> h] : h \in Hashes }
Txs == BaseTxs \cup { [type |-> n, hash_value |-> 5] : n \in TypeNames }

\* StarknetOsInput.transactions: the type names vary in the last transaction
TxLists ==
    {<<>>} \cup
    { Append(t, x) : t \in UNION { [1..n -> BaseTxs] : n \in 0..(MaxTxs - 1) },
                     x \in Txs }

\* StarknetOsInput.contracts: address -> ContractState
OneContract == (1 :> [contract_hash |-> 11, nonce |-> 0])
TwoContracts == OneContract @@ (2 :> [contract_hash |-> 12, nonce |-> 1])
ContractMaps == {EmptyMap, OneContract, TwoContracts}

\* StarknetOsInput: every contracts map with an empty batch, and every
\* batch with one contract
OsInputs ==
    { [contracts |-> c, transactions |-> <<>>] : c \in ContractMaps }
        \cup { [contracts |-> OneContract, transactions |-> t] : t \in TxLists }

\* The orders in which a map can hand out its entries: the contracts map
\* is a hash map, whose iteration order is fixed when the map is built and
\* is not a function of its content.
IterationOrders(contracts) ==
    { o \in [1..Cardinality(DOMAIN contracts) -> DOMAIN contracts] :
        \A i, j \in DOMAIN o : o[i] = o[j] => i = j }

\* The main scope when the transaction loop starts: os_input loaded, the
\* set-up's variables present.
MainScope(input) ==
    ("os_input" :> input)
    @@ ("dict_manager" :> "DictManager")
    @@ ("__deprecated_class_hashes" :> {})
    @@ ("execution_helper" :> "OsExecutionHelper")

\* the runs of the OS program that are compared
Runs == {1, 2}

\* One run before its first handler; contracts_order is the iteration
\* order of its contracts map, delivered the transactions load_next_tx has
\* handed out.
NewRun(input, order) ==
    [vm |-> NewVm, exec_scopes |-> <<MainScope(input)>>, outcome |-> HintOk,
     contracts_order |-> order, delivered |-> <<>>]

\* the cells of the execution segment that ids names stand for
ExecAddrs == { <<1, 0>>, <<1, 1>> }

\* ------------------------------------------------------------------------
\* The state machine
\* ------------------------------------------------------------------------
VARIABLES
    tx_execution_infos,   \* the batch handed to new
    block_context,        \* the block context handed to new
    execution_helper,     \* Rc<RefCell<ExecutionHelper>>: borrow flag and value
    panic,                \* "" while the run is alive, else the panic that ended it
    last,                 \* the operation that ran last and its argument
    entered,              \* the CallInfo records successful enter_calls made current
    os_input,             \* the StarknetOsInput the hint handlers work from
    runs,                 \* per run: the VM, the execution scopes, how the last handler ended
    hint                  \* the handler that ran last and the cell its ids name stands for

helper_vars == <<tx_execution_infos, block_context, execution_helper, panic, last, entered>>
hint_vars == <<os_input, runs, hint>>
vars == <<tx_execution_infos, block_context, execution_helper, panic, last, entered,
          os_input, runs, hint>>

\* the helper's value
eh == execution_helper.value

\* the pointers the hints hand over (Relocatable: segment, offset)
Ptrs == { <<1, 0>> }
OptPtrs == {None} \cup { Some(p) : p \in Ptrs }

BlockContexts ==
    { [block_number |-> n] :
        n \in {0, STORED_BLOCK_HASH_BUFFER - 1, STORED_BLOCK_HASH_BUFFER,
               STORED_BLOCK_HASH_BUFFER + 1} }

\* The arguments of new: every batch at the block STORED_BLOCK_HASH_BUFFER,
\* and the batches of at most one call at every block.
Inputs ==
    (AllBatches \X {[block_number |-> STORED_BLOCK_HASH_BUFFER]})
        \cup ({ b \in AllBatches : BatchSize(b) <= 1 } \X BlockContexts)

\* no hint handler of src/src/hints/mod.rs has run
NoHints ==
    /\ os_input = [contracts |-> EmptyMap, transactions |-> <<>>]
    /\ runs = [r \in Runs |-> NewRun(os_input, <<>>)]
    /\ hint = [name |-> "none", arg |-> None]

Init ==
    /\ \E input \in Inputs :
          /\ tx_execution_infos = input[1]
          /\ block_context = input[2]
    /\ execution_helper = new(tx_execution_infos, block_context)
    /\ panic = NoPanic
    /\ last = [op |-> "new", arg |-> None]
    /\ entered = <<>>
    /\ NoHints

\* one operation of the manager, run to its return or its panic
Step(op, arg, r) ==
    /\ panic = NoPanic
    /\ execution_helper' = r.cell
    /\ panic' = r.panic
    /\ last' = [op |-> op, arg |-> arg]
    /\ UNCHANGED <<tx_execution_infos, block_context>>
    /\ UNCHANGED hint_vars

StartTx ==
    \E ptr \in OptPtrs :
        /\ Step("start_tx", ptr, start_tx(execution_helper, ptr))
        /\ UNCHANGED entered

EndTx ==
    /\ Step("end_tx", None, end_tx(execution_helper))
    /\ UNCHANGED entered

SkipTx ==
    /\ Step("skip_tx", None, skip_tx(execution_helper))
    /\ UNCHANGED entered

\* the calls a run of enter_call made current: the one it popped, if it
\* got as far as storing it
EnteredBy(r) ==
    IF r.panic = NoPanic THEN r.cell.value.call_info ELSE <<>>

EnterCall ==
    \E ptr \in OptPtrs :
        LET r == enter_call(execution_helper, ptr) IN
        /\ Step("enter_call", ptr, r)
        /\ entered' = entered \o EnteredBy(r)

ExitCall ==
    /\ Step("exit_call", None, exit_call(execution_helper))
    /\ UNCHANGED entered

SkipCall ==
    LET r1 == enter_call(execution_helper, None)
        r == skip_call(execution_helper)
    IN
    /\ Step("skip_call", None, r)
    /\ entered' = entered \o EnteredBy(r1)

\* The syscall handlers draw the next element of a per-call sequence
\* (IntoIter::next under a mutable borrow of the helper).
next_of(self, field) ==
    with_borrow_mut(self,
        Ok([self.value EXCEPT ![field] = iter_next(self.value[field]).rest]))

ConsumeDeployed ==
    /\ eh.deployed_contracts_iter # <<>>
    /\ Step("next_deployed", None, next_of(execution_helper, "deployed_contracts_iter"))
    /\ UNCHANGED entered

ConsumeResult ==
    /\ eh.result_iter # <<>>
    /\ Step("next_result", None, next_of(execution_helper, "result_iter"))
    /\ UNCHANGED entered

ConsumeStorageRead ==
    /\ eh.execute_code_read_iter # <<>>
    /\ Step("next_storage_read", None, next_of(execution_helper, "execute_code_read_iter"))
    /\ UNCHANGED entered

Next ==
    \/ StartTx
    \/ EndTx
    \/ SkipTx
    \/ EnterCall
    \/ ExitCall
    \/ SkipCall
    \/ ConsumeDeployed
    \/ ConsumeResult
    \/ ConsumeStorageRead

Spec == Init /\ [][Next]_vars

\* ------------------------------------------------------------------------
\* Reference definitions for the properties
\* ------------------------------------------------------------------------
\* how many transactions start_tx has popped so far
Started == Len(tx_execution_infos) - Len(eh.tx_execution_info_iter)

Alive == panic = NoPanic

\* the operation op ran last and returned
Returned(op) == Alive /\ last.op = op

\* Pre-order by an explicit work list: the top of the stack is emitted and
\* replaced by its inner calls.
RECURSIVE PreOrderWorklist(_, _)
PreOrderWorklist(stack, out) ==
    IF stack = <<>> THEN out
    ELSE PreOrderWorklist(Head(stack).inner_calls \o Tail(stack),
                          Append(out, Head(stack)))

PresentRoots(tx) ==
    (IF tx.validate_call_info = None THEN <<>> ELSE <<tx.validate_call_info[1]>>)
    \o (IF tx.execute_call_info = None THEN <<>> ELSE <<tx.execute_call_info[1]>>)
    \o (IF tx.fee_transfer_call_info = None THEN <<>>
        ELSE <<tx.fee_transfer_call_info[1]>>)

ReferencePreOrder(tx) == PreOrderWorklist(PresentRoots(tx), <<>>)

RECURSIVE ReferenceTrace(_)
ReferenceTrace(txs) ==
    IF txs = <<>> THEN <<>>
    ELSE ReferencePreOrder(Head(txs)) \o ReferenceTrace(Tail(txs))

\* position p comes before position q in pre-order: p is a proper prefix of
\* q (an ancestor), or p is smaller where they first differ
PathBefore(p, q) ==
    \/ Len(p) < Len(q) /\ \A i \in 1..Len(p) : p[i] = q[i]
    \/ \E i \in 1..Len(p) :
          /\ i <= Len(q)
          /\ p[i] < q[i]
          /\ \A j \in 1..(i - 1) : p[j] = q[j]

InPathOrder(calls) ==
    \A i, j \in 1..Len(calls) :
        i < j => PathBefore(calls[i].call.calldata, calls[j].call.calldata)

\* ------------------------------------------------------------------------
\* Properties
\* ------------------------------------------------------------------------
\* C1: while every operation has succeeded, the calls made current by the
\* successful enter_calls, followed by the calls still queued, are the
\* concatenation in batch order of the pre-order flattenings of the
\* transactions started so far; so no call is skipped, repeated or out of
\* order, and once the batch is used up the calls delivered are exactly the
\* flattening of the whole batch.
C1_EnteredIsPreOrderOfBatch ==
    Alive =>
        /\ entered \o eh.call_iter
             = ReferenceTrace(SubSeq(tx_execution_infos, 1, Started))
        /\ InPathOrder(entered \o eh.call_iter)
        /\ (eh.tx_execution_info_iter = <<>> /\ eh.call_iter = <<>>)
             => entered = ReferenceTrace(tx_execution_infos)

\* a batch of two transactions, three calls in all, delivered to the end
C1_Witness ==
    /\ Alive
    /\ Len(tx_execution_infos) = 2
    /\ eh.tx_execution_info_iter = <<>>
    /\ is_none(eh.tx_execution_info)
    /\ is_none(eh.call_info)
    /\ Len(entered) = 3
    /\ entered[1].call.calldata[1] = 1
    /\ entered[3].call.calldata[1] = 2

\* C2: the call queue start_tx builds is the reference pre-order of the
\* transaction's present sub-traces (validate, execute, fee transfer), as
\* long as the transaction has nodes, and in position order.
C2_CallQueueIsPreOrder ==
    Returned("start_tx") =>
        LET tx == tx_execution_infos[Started] IN
        /\ eh.tx_execution_info = Some(tx)
        /\ eh.call_iter = ReferencePreOrder(tx)
        /\ Len(eh.call_iter) = TxSize(tx)
        /\ InPathOrder(eh.call_iter)

\* a transaction without validate trace whose execute root has two inner calls
C2_Witness ==
    /\ Returned("start_tx")
    /\ is_none(unwrap(eh.tx_execution_info).validate_call_info)
    /\ Len(eh.call_iter) = 3
    /\ Len(eh.call_iter[1].inner_calls) = 2

\* C3: start_tx (alone or as the first half of skip_tx) run while a
\* transaction is open panics, and enter_call (alone or as the first half of
\* skip_call) run while a call is open panics, whatever pointer the open
\* scope was given; so a start_tx that returns found no transaction open, an
\* enter_call that returns found no call open, and never more than one
\* transaction or call is current.
C3_ReentryIsFatal ==
    [][ /\ (last'.op \in {"start_tx", "skip_tx"} /\ is_some(eh.tx_execution_info))
            => panic' # NoPanic
        /\ (last'.op \in {"enter_call", "skip_call"} /\ is_some(eh.call_info))
            => panic' # NoPanic
        /\ panic' = NoPanic
            => Len(eh'.tx_execution_info) <= 1 /\ Len(eh'.call_info) <= 1
      ]_vars

\* start_tx panicked on a transaction opened without a pointer: only the
\* second assertion could stop it
C3_Witness ==
    /\ last.op = "start_tx"
    /\ panic = "start_tx: assert tx_execution_info.is_none()"
    /\ is_some(eh.tx_execution_info)
    /\ entered # <<>>

\* C4: exit_call returns exactly when a call is open and deployed_iter,
\* result_iter and storage_read_iter are all exhausted, and panics otherwise;
\* when it returns, call_execution_info_ptr and call_current are unset.
C4_ExitCallContract ==
    [][ last'.op = "exit_call" =>
          /\ (panic' = NoPanic) <=>
                /\ is_some(eh.call_info)
                /\ eh.deployed_contracts_iter = <<>>
                /\ eh.result_iter = <<>>
                /\ eh.execute_code_read_iter = <<>>
          /\ panic' = NoPanic =>
                /\ is_none(eh'.call_execution_info_ptr)
                /\ is_none(eh'.call_info)
      ]_vars

\* exit_call returned from a call that had inner calls and storage reads
C4_Witness ==
    /\ Returned("exit_call")
    /\ entered # <<>>
    /\ entered[Len(entered)].inner_calls # <<>>
    /\ entered[Len(entered)].storage_read_values # <<>>

\* C5: end_tx returns exactly when a transaction is open and its call queue
\* is drained, and panics otherwise; when it returns, tx_info_ptr and
\* tx_current are unset and tx_iter is as it was.
C5_EndTxContract ==
    [][ last'.op = "end_tx" =>
          /\ (panic' = NoPanic) <=>
                /\ is_some(eh.tx_execution_info)
                /\ eh.call_iter = <<>>
          /\ panic' = NoPanic =>
                /\ is_none(eh'.tx_info_ptr)
                /\ is_none(eh'.tx_execution_info)
                /\ eh'.tx_execution_info_iter = eh.tx_execution_info_iter
      ]_vars

\* end_tx returned after the calls of the first of two transactions
C5_Witness ==
    /\ Returned("end_tx")
    /\ entered # <<>>
    /\ eh.tx_execution_info_iter # <<>>

\* C6: right after an end_tx that returned, the call queue, deployed_iter,
\* result_iter and storage_read_iter are all empty.
C6_AfterEndTxAllEmpty ==
    Returned("end_tx") =>
        /\ eh.call_iter = <<>>
        /\ eh.deployed_contracts_iter = <<>>
        /\ eh.result_iter = <<>>
        /\ eh.execute_code_read_iter = <<>>

\* C7: while the run is alive, tx_info_ptr is set only while a transaction
\* is open and call_execution_info_ptr only while a call is open.
C7_PointersUnsetOutsideScope ==
    Alive =>
        /\ is_some(eh.tx_info_ptr) => is_some(eh.tx_execution_info)
        /\ is_some(eh.call_execution_info_ptr) => is_some(eh.call_info)

\* both pointers set inside their scopes, after an earlier call scope was
\* opened and closed
C7_Witness ==
    /\ Alive
    /\ is_some(eh.tx_info_ptr)
    /\ is_some(eh.call_execution_info_ptr)
    /\ is_some(eh.tx_execution_info)
    /\ is_some(eh.call_info)
    /\ Len(entered) = 2

\* the deployed addresses the inner calls stand for: the caller address of
\* every constructor call among them, in order
RECURSIVE ExpectedDeployed(_)
ExpectedDeployed(calls) ==
    IF calls = <<>> THEN <<>>
    ELSE (IF Head(calls).call.entry_point_type = "Constructor"
          THEN <<Head(calls).call.caller_address>> ELSE <<>>)
         \o ExpectedDeployed(Tail(calls))

\* the field elements of a sequence, written back as StarkFelt bytes
AsStarkFelts(felts) == [i \in 1..Len(felts) |-> StarkFeltFrom(felts[i])]

\* C8: after an enter_call that returned, deployed_iter holds the caller
\* address of every direct inner call of kind Constructor, in inner-call
\* order, and nothing else.
C8_DeployedIter ==
    Returned("enter_call") =>
        LET call_info == unwrap(eh.call_info) IN
        /\ call_info = entered[Len(entered)]
        /\ AsStarkFelts(eh.deployed_contracts_iter)
             = ExpectedDeployed(call_info.inner_calls)

\* a call whose two inner calls are constructors with different callers
C8_Witness ==
    /\ Returned("enter_call")
    /\ eh.deployed_contracts_iter = <<7, 273>>
    /\ Len(unwrap(eh.call_info).inner_calls) = 2

\* C9: after an enter_call that returned, result_iter has one element per
\* direct inner call, the i-th being {failed, retdata, gas_consumed} of the
\* i-th inner call.
C9_ResultIter ==
    Returned("enter_call") =>
        LET call_info == unwrap(eh.call_info) IN
        /\ Len(eh.result_iter) = Len(call_info.inner_calls)
        /\ \A i \in 1..Len(call_info.inner_calls) :
              /\ DOMAIN eh.result_iter[i] = {"failed", "retdata", "gas_consumed"}
              /\ eh.result_iter[i].failed = call_info.inner_calls[i].execution.failed
              /\ eh.result_iter[i].retdata = call_info.inner_calls[i].execution.retdata
              /\ eh.result_iter[i].gas_consumed
                   = call_info.inner_calls[i].execution.gas_consumed

\* a call with two inner calls of different results
C9_Witness ==
    /\ Returned("enter_call")
    /\ Len(eh.result_iter) = 2
    /\ eh.result_iter[1] # eh.result_iter[2]

\* C10: after an enter_call that returned, storage_read_iter is the entered
\* call's storage_read_values, in order and of the same length; the reads of
\* inner calls and of earlier calls are not in it.
C10_StorageReadIter ==
    Returned("enter_call") =>
        LET call_info == unwrap(eh.call_info) IN
        /\ Len(eh.execute_code_read_iter) = Len(call_info.storage_read_values)
        /\ AsStarkFelts(eh.execute_code_read_iter) = call_info.storage_read_values

\* the second call entered reads two values, its inner call and the call
\* entered before it have reads of their own
C10_Witness ==
    /\ Returned("enter_call")
    /\ Len(entered) = 2
    /\ entered[1].storage_read_values # <<>>
    /\ eh.execute_code_read_iter = <<42, 300>>
    /\ unwrap(eh.call_info).inner_calls # <<>>
    /\ unwrap(eh.call_info).inner_calls[1].storage_read_values # <<>>

\* the panics of assert_iterators_exhausted
ExhaustionPanics ==
    { "assert deployed_contracts_iter exhausted",
      "assert result_iter exhausted",
      "assert execute_code_read_iter exhausted" }

\* C11: skip_call run with no call open and a call queued returns exactly
\* when the next CallInfo has neither inner calls nor storage reads; then
\* that one call has left the queue, no call is open and
\* call_execution_info_ptr is unset; otherwise it panics on the exhaustion
\* check.
C11_SkipCallContract ==
    [][ (last'.op = "skip_call" /\ is_none(eh.call_info) /\ eh.call_iter # <<>>) =>
          LET next_call == Head(eh.call_iter) IN
          /\ (panic' = NoPanic) <=>
                /\ next_call.inner_calls = <<>>
                /\ next_call.storage_read_values = <<>>
          /\ panic' = NoPanic =>
                /\ eh'.call_iter = Tail(eh.call_iter)
                /\ entered' = Append(entered, next_call)
                /\ is_none(eh'.call_info)
                /\ is_none(eh'.call_execution_info_ptr)
          /\ panic' # NoPanic => panic' \in ExhaustionPanics
      ]_vars

\* skip_call returned, over a call without inner calls and storage reads,
\* with another call still queued
C11_Witness ==
    /\ Returned("skip_call")
    /\ entered # <<>>
    /\ entered[Len(entered)].inner_calls = <<>>
    /\ entered[Len(entered)].storage_read_values = <<>>
    /\ eh.call_iter # <<>>
    /\ is_none(eh.call_info)

\* C12: skip_tx run with no transaction open returns exactly when a
\* transaction remains in tx_iter and its flattened call queue is empty; it
\* leaves the helper as start_tx(None) followed by end_tx() leaves it: one
\* transaction consumed, tx_info_ptr and tx_current unset; when the next
\* transaction has a call it panics on end_tx's assertion.
C12_SkipTxContract ==
    [][ (last'.op = "skip_tx" /\ is_none(eh.tx_execution_info)) =>
          /\ (panic' = NoPanic) <=>
                /\ eh.tx_execution_info_iter # <<>>
                /\ TxSize(Head(eh.tx_execution_info_iter)) = 0
          /\ panic' = NoPanic =>
                /\ eh'.tx_execution_info_iter = Tail(eh.tx_execution_info_iter)
                /\ is_none(eh'.tx_info_ptr)
                /\ is_none(eh'.tx_execution_info)
                /\ eh'.call_iter = <<>>
                /\ execution_helper'
                     = end_tx(start_tx(execution_helper, None).cell).cell
          /\ (eh.tx_execution_info_iter # <<>>
                /\ TxSize(Head(eh.tx_execution_info_iter)) > 0)
               => panic' = "end_tx: assert call_iter exhausted"
      ]_vars

\* skip_tx returned over the first of two transactions
C12_Witness ==
    /\ Returned("skip_tx")
    /\ Started = 1
    /\ eh.tx_execution_info_iter # <<>>

\* C13: start_tx (alone or in skip_tx) run on an exhausted tx_iter panics,
\* and enter_call (alone or in skip_call) run on an empty call queue panics;
\* a start_tx that returns has a transaction as current, an enter_call that
\* returns a call.
C13_UnderflowIsFatal ==
    [][ /\ (last'.op \in {"start_tx", "skip_tx"} /\ eh.tx_execution_info_iter = <<>>)
            => panic' # NoPanic
        /\ (last'.op \in {"enter_call", "skip_call"} /\ eh.call_iter = <<>>)
            => panic' # NoPanic
        /\ (last'.op = "start_tx" /\ panic' = NoPanic)
            => /\ is_some(eh'.tx_execution_info)
               /\ unwrap(eh'.tx_execution_info) = Head(eh.tx_execution_info_iter)
        /\ (last'.op = "enter_call" /\ panic' = NoPanic)
            => /\ is_some(eh'.call_info)
               /\ unwrap(eh'.call_info) = Head(eh.call_iter)
      ]_vars

\* start_tx panicked on the unwrap after the whole batch was consumed
C13_Witness ==
    /\ last.op = "start_tx"
    /\ panic = "start_tx: unwrap on None"
    /\ Started >= 1
    /\ eh.tx_execution_info_iter = <<>>
    /\ is_none(eh.tx_execution_info)

\* C14: prev_block_context is present exactly when block_number is at least
\* STORED_BLOCK_HASH_BUFFER, from construction on and whatever operations
\* have run.
C14_PrevBlockContext ==
    /\ is_some(eh.prev_block_context)
         <=> block_context.block_number >= STORED_BLOCK_HASH_BUFFER
    /\ is_some(eh.prev_block_context)
         => unwrap(eh.prev_block_context) = block_context

\* a run at block STORED_BLOCK_HASH_BUFFER - 1 that has gone through a whole
\* transaction
C14_Witness ==
    /\ Returned("end_tx")
    /\ entered # <<>>
    /\ block_context.block_number = STORED_BLOCK_HASH_BUFFER - 1
    /\ is_none(eh.prev_block_context)

\* C20: call scopes nest inside transaction scopes: in every state reached
\* without a panic an open call implies an open transaction, that is, end_tx
\* never returns between an enter_call and its exit_call.
C20_CallInsideTx ==
    (panic = NoPanic /\ is_some(eh.call_info)) => is_some(eh.tx_execution_info)

\* ---------------------------------------------------------------------
\* The canonical drive: per transaction start_tx, then while the call queue
\* is non-empty enter_call, the three per-call sequences consumed to the
\* end, exit_call, then end_tx.

DriveStartTx ==
    /\ is_none(eh.tx_execution_info)
    /\ is_none(eh.call_info)
    /\ eh.tx_execution_info_iter # <<>>
    /\ StartTx

DriveEnterCall ==
    /\ is_some(eh.tx_execution_info)
    /\ is_none(eh.call_info)
    /\ eh.call_iter # <<>>
    /\ EnterCall

DriveExitCall ==
    /\ is_some(eh.call_info)
    /\ eh.deployed_contracts_iter = <<>>
    /\ eh.result_iter = <<>>
    /\ eh.execute_code_read_iter = <<>>
    /\ ExitCall

DriveEndTx ==
    /\ is_some(eh.tx_execution_info)
    /\ is_none(eh.call_info)
    /\ eh.call_iter = <<>>
    /\ EndTx

NextDrive ==
    \/ DriveStartTx
    \/ DriveEnterCall
    \/ ConsumeDeployed
    \/ ConsumeResult
    \/ ConsumeStorageRead
    \/ DriveExitCall
    \/ DriveEndTx

\* The OS program runs its hints one after the other to the end of the
\* batch: a drive step that can be taken is taken.
SpecDrive == Init /\ [][NextDrive]_vars /\ WF_vars(NextDrive)

\* Idle with the batch consumed
Terminal ==
    /\ Alive
    /\ eh.tx_execution_info_iter = <<>>
    /\ is_none(eh.tx_execution_info)
    /\ is_none(eh.call_info)
    /\ is_none(eh.tx_info_ptr)
    /\ is_none(eh.call_execution_info_ptr)

\* C19: the canonical drive of any batch never panics and eventually stands
\* in the terminal state: tx_iter exhausted, no transaction and no call
\* open, both pointers unset.
C19_CanonicalDriveTerminates ==
    /\ [](panic = NoPanic)
    /\ <>Terminal

\* the drive of a batch of two transactions, at its end after three calls
C19_Witness ==
    /\ Terminal
    /\ Returned("end_tx")
    /\ Len(tx_execution_infos) = 2
    /\ Len(entered) = 3

\* ---------------------------------------------------------------------
\* The hint handlers as a state machine: two runs of the OS program from
\* the same StarknetOsInput, the same handlers invoked in both.

\* the helper of src/src/execution/helper.rs stands by
NoHelper ==
    /\ tx_execution_infos = <<>>
    /\ block_context = [block_number |-> STORED_BLOCK_HASH_BUFFER]
    /\ execution_helper = new(tx_execution_infos, block_context)
    /\ panic = NoPanic
    /\ last = [op |-> "new", arg |-> None]
    /\ entered = <<>>

InitHints ==
    /\ NoHelper
    /\ os_input \in OsInputs
    /\ runs \in [Runs -> { NewRun(os_input, o) : o \in IterationOrders(os_input.contracts) }]
    /\ hint = [name |-> "starknet_os_input", arg |-> None]

\* One handler run to its end in every run; a run whose handler ended in an
\* error or a panic is aborted, and the comparison stops there.
HintStep(name, arg, results) ==
    /\ \A r \in Runs : runs[r].outcome = HintOk
    /\ runs' = [r \in Runs |->
                 [runs[r] EXCEPT
                    !.vm = results[r].vm,
                    !.exec_scopes = results[r].exec_scopes,
                    !.outcome = results[r].outcome,
                    !.delivered =
                        IF name = "load_next_tx" /\ results[r].outcome = HintOk
                        THEN @ \o scopes_get(results[r].exec_scopes, "tx")
                        ELSE @]]
    /\ hint' = [name |-> name, arg |-> arg]
    /\ UNCHANGED os_input
    /\ UNCHANGED helper_vars

InitializeStateChanges ==
    /\ \A r \in Runs :
          runs[r].vm.num_segments + 2 * Cardinality(DOMAIN os_input.contracts)
              <= MaxSegments
    /\ HintStep("initialize_state_changes", None,
                [r \in Runs |-> initialize_state_changes(runs[r], runs[r].contracts_order)])

EnterSyscallScopes ==
    HintStep("enter_syscall_scopes", None,
             [r \in Runs |-> enter_syscall_scopes(runs[r])])

LoadNextTx ==
    \E tx_type_addr \in ExecAddrs :
        HintStep("load_next_tx", Some(tx_type_addr),
                 [r \in Runs |-> load_next_tx(runs[r], tx_type_addr)])

AssertTransactionHash ==
    \E transaction_hash_addr \in ExecAddrs :
        HintStep("assert_transaction_hash", Some(transaction_hash_addr),
                 [r \in Runs |-> assert_transaction_hash(runs[r], transaction_hash_addr)])

\* The OS program computes the hash of the transaction into a fresh cell of
\* the execution segment.
CairoStoreHash ==
    \E addr \in ExecAddrs, h \in Hashes :
        /\ \A r \in Runs : addr \notin DOMAIN runs[r].vm.memory
        /\ HintStep("store_hash", Some(addr),
                    [r \in Runs |->
                       Done(vm_insert_value(runs[r].vm, addr, IntValue(h)).vm,
                            runs[r].exec_scopes, HintOk)])

NextHints ==
    \/ InitializeStateChanges
    \/ EnterSyscallScopes
    \/ LoadNextTx
    \/ AssertTransactionHash
    \/ CairoStoreHash

SpecHints == InitHints /\ [][NextHints]_vars

\* C15: two runs from the same StarknetOsInput through the same handlers
\* have allocated the same segments and written the same values to the same
\* addresses, whatever order the contracts map was iterated in.
C15_SameMemoryWrites ==
    \A r1, r2 \in Runs :
        (runs[r1].outcome = HintOk /\ runs[r2].outcome = HintOk)
            => runs[r1].vm = runs[r2].vm

\* C16: assert_transaction_hash returns Ok exactly when ids.transaction_hash
\* equals tx.hash_value, writes no memory and changes no scope variable, and
\* on a mismatch ends in a custom hint error whose message carries the
\* computed and the expected hash.
C16_AssertTransactionHash ==
    [][ hint'.name = "assert_transaction_hash" =>
          \A r \in Runs :
            LET tx_ == scopes_get(runs[r].exec_scopes, "tx")
                transaction_hash == get_integer(runs[r].vm, unwrap(hint'.arg))
                out == runs'[r].outcome
            IN
            (is_some(tx_) /\ is_some(transaction_hash)) =>
                /\ (out = HintOk) <=> unwrap(transaction_hash) = unwrap(tx_).hash_value
                /\ runs'[r].vm = runs[r].vm
                /\ runs'[r].exec_scopes = runs[r].exec_scopes
                /\ out # HintOk =>
                      /\ out.kind = "Err"
                      /\ out.variant = "CustomHint"
                      /\ out.args = <<unwrap(transaction_hash), unwrap(tx_).hash_value>>
      ]_vars

\* C17: in the scope enter_syscall_scopes opened, the k-th load_next_tx that
\* returns Ok sets tx to the k-th transaction of os_input.transactions and
\* puts back the iterator advanced by one; a load_next_tx on the exhausted
\* iterator fails and leaves the scope as it was.
C17_LoadNextTxDelivers ==
    [][ hint'.name = "load_next_tx" =>
          \A r \in Runs :
            LET before == scopes_get(runs[r].exec_scopes, "transactions")
                after == runs'[r]
                k == Len(after.delivered)
            IN
            is_some(before) =>
                /\ after.outcome = HintOk =>
                      /\ unwrap(before) # <<>>
                      /\ scopes_get(after.exec_scopes, "tx") = Some(Head(unwrap(before)))
                      /\ scopes_get(after.exec_scopes, "transactions")
                           = Some(Tail(unwrap(before)))
                      /\ k = Len(runs[r].delivered) + 1
                      /\ k <= Len(os_input.transactions)
                      /\ after.delivered = SubSeq(os_input.transactions, 1, k)
                /\ unwrap(before) = <<>> =>
                      /\ after.outcome.kind # "Ok"
                      /\ after.exec_scopes = runs[r].exec_scopes
                      /\ after.delivered = os_input.transactions
      ]_vars

\* load_next_tx failed on the exhausted iterator after it had delivered the
\* two transactions of the batch
C17_Witness ==
    /\ hint.name = "load_next_tx"
    /\ runs[1].outcome.kind = "panic"
    /\ Len(os_input.transactions) = 2
    /\ os_input.transactions[1] # os_input.transactions[2]
    /\ runs[1].delivered = os_input.transactions

\* int.from_bytes(name, "big")
RECURSIVE BigEndianInteger(_)
BigEndianInteger(bytes) ==
    IF bytes = <<>> THEN 0
    ELSE 256 * BigEndianInteger(SubSeq(bytes, 1, Len(bytes) - 1)) + bytes[Len(bytes)]

\* the bytes of a number, most significant first, without leading zeros
RECURSIVE DecodeBigEndian(_)
DecodeBigEndian(n) ==
    IF n = 0 THEN <<>>
    ELSE Append(DecodeBigEndian(n \div 256), n % 256)

\* a name that is not empty and short enough to fit one field element
FitsOneFelt(name) ==
    /\ name # <<>>
    /\ Len(name) <= FeltBytes
    /\ BigEndianInteger(name) < FeltModulus

C21_NoReentrantBorrow ==
    [][ /\ execution_helper'.borrow = 0
        /\ panic' # "already borrowed: BorrowMutError"
        /\ last'.op = "skip_tx"
             => start_tx(execution_helper, None).cell.borrow = 0
        /\ last'.op = "skip_call"
             => enter_call(execution_helper, None).cell.borrow = 0
      ]_vars

\* skip_tx went through both of its halves and returned, and the helper is
\* not borrowed
C21_Witness ==
    /\ Returned("skip_tx")
    /\ Started = 2
    /\ entered # <<>>
    /\ execution_helper.borrow = 0

\* C22: in every state reached without a panic in which no call is open the
\* three per-call sequences are empty, so an enter_call run with no call
\* open never fails on the exhaustion check.
C22_NoResidueOutsideCall ==
    [][ /\ (panic' = NoPanic /\ is_none(eh'.call_info)) =>
              /\ eh'.deployed_contracts_iter = <<>>
              /\ eh'.result_iter = <<>>
              /\ eh'.execute_code_read_iter = <<>>
        /\ (last'.op = "enter_call" /\ is_none(eh.call_info)) =>
              panic' \notin ExhaustionPanics
      ]_vars

\* exit_call returned, closing a call that had an inner deployment, a
\* result and storage reads to consume
C22_Witness ==
    /\ Returned("exit_call")
    /\ is_none(eh.call_info)
    /\ entered # <<>>
    /\ deployed_calls(entered[Len(entered)]) # <<>>
    /\ storage_reads(entered[Len(entered)]) # <<>>
    /\ eh.deployed_contracts_iter = <<>>
    /\ eh.result_iter = <<>>
    /\ eh.execute_code_read_iter = <<>>

====
